---- MODULE Spec2Model ----
(***************************************************************************)
(* Model of the actitopo package: the Element codec (element.go), the Tree *)
(* queries (tree.go) and the Topology facade (topology.go).                *)
(*                                                                         *)
(* Byte strings are sequences of one-character strings.  A JSON value is a *)
(* record tagged by t: "null", "str" (s, the characters between the        *)
(* quotes), "num" (h, the value counted in halves, so that 3 is 1.5),      *)
(* "arr", "obj" (one field per member) and "raw" (b, bytes that are not    *)
(* valid JSON).  A missing object member is Absent.                        *)
(***************************************************************************)
EXTENDS Integers, Sequences, FiniteSets, TLC

VARIABLES topo, ret, e

vars == <<topo, ret, e>>

-----------------------------------------------------------------------------
(* Bounds of the model.                                                    *)

MaxNodes == 3

-----------------------------------------------------------------------------
(* Strings.                                                                *)

Q == "\""

UpperChars == <<"A","B","C","D","E","F","G","H","I","J","K","L","M",
                "N","O","P","Q","R","S","T","U","V","W","X","Y","Z">>

LowerChars == <<"a","b","c","d","e","f","g","h","i","j","k","l","m",
                "n","o","p","q","r","s","t","u","v","w","x","y","z">>

ToLowerChar(c) ==
    IF \E i \in DOMAIN UpperChars : UpperChars[i] = c
    THEN LowerChars[CHOOSE i \in DOMAIN UpperChars : UpperChars[i] = c]
    ELSE c

ToLower(s) == [i \in DOMAIN s |-> ToLowerChar(s[i])]

HasPrefix(s, prefix) ==
    /\ Len(s) >= Len(prefix)
    /\ SubSeq(s, 1, Len(prefix)) = prefix

-----------------------------------------------------------------------------
(* JSON values.                                                            *)

Absent == [t |-> "absent"]

JNull == [t |-> "null"]

JStr(s) == [s |-> s, t |-> "str"]

JNum(h) == [t |-> "num", h |-> h]

JRaw(b) == [t |-> "raw", b |-> b]

Member(obj, key) == IF key \in DOMAIN obj THEN obj[key] ELSE Absent

IsMap(v) == v.t = "obj"

IsString(v) == v.t = "str"

IsFloat64(v) == v.t = "num"

(* The bytes of a value as far as a prefix test against a quoted token can *)
(* read them: a string is its characters between quotes, every other value *)
(* begins with a byte that is not a quote.                                 *)
Bytes(v) ==
    CASE v.t = "str"  -> <<Q>> \o v.s \o <<Q>>
      [] v.t = "raw"  -> v.b
      [] v.t = "obj"  -> <<"{">>
      [] v.t = "arr"  -> <<"[">>
      [] v.t = "null" -> <<"n","u","l","l">>
      [] OTHER        -> <<"0">>

(* Truncation of a float64 towards zero, for values inside the range of    *)
(* the target type.                                                        *)
Trunc(h) == IF h >= 0 THEN h \div 2 ELSE 0 - ((0 - h) \div 2)

-----------------------------------------------------------------------------
(* Errors.                                                                 *)

NoErr == "nil"

ErrSyntax == "json: syntax error"

ErrInvalidElement == "Invalid Element"

ErrElement == "failed to unmarshal Element"

ErrProcessing == "failed to unmarshal Processing"

ErrProcessingKind == "failed to unmarshal Processing: failed to unmarshal ProcessingKind"

ErrCache == "failed to unmarshal Cache"

ErrCacheLevel == "failed to unmarshal Cache: failed to unmarshal CacheLevel"

ErrUnknownKind == "unknown processing kind"

ErrUnknownLevel == "Unknown cache level"

-----------------------------------------------------------------------------
(* ProcessingKind.                                                         *)

UnknownProcessingKind == 0

Package == 1

NUMANode == 2

Core == 3

Thread == 4

ProcessingKindString(pk) ==
    CASE pk = Package  -> <<"P","a","c","k","a","g","e">>
      [] pk = NUMANode -> <<"N","U","M","A","N","o","d","e">>
      [] pk = Core     -> <<"C","o","r","e">>
      [] pk = Thread   -> <<"T","h","r","e","a","d">>
      [] OTHER         -> <<"U","n","k","n","o","w","n","P","r","o","c","e","s","s",
                            "i","n","g","K","i","n","d">>

ParseProcessingKind(str) ==
    LET s == ToLower(str) IN
    CASE s = <<"p","a","c","k","a","g","e">> -> [v |-> Package, err |-> NoErr]
      [] s = <<"n","u","m","a","_","n","o","d","e">>
         \/ s = <<"n","u","m","a","n","o","d","e">> -> [v |-> NUMANode, err |-> NoErr]
      [] s = <<"c","o","r","e">> -> [v |-> Core, err |-> NoErr]
      [] s = <<"t","h","r","e","a","d">> -> [v |-> Thread, err |-> NoErr]
      [] OTHER -> [v |-> UnknownProcessingKind, err |-> ErrUnknownKind]

ProcessingKindMarshalJSON(pk) == JStr(ToLower(ProcessingKindString(pk)))

-----------------------------------------------------------------------------
(* CacheLevel.                                                             *)

UnknownCacheLevel == 0

L1 == 1

L2 == 2

L3 == 3

L4 == 4

L5 == 5

CacheLevelString(cl) ==
    CASE cl = L1 -> <<"L","1">>
      [] cl = L2 -> <<"L","2">>
      [] cl = L3 -> <<"L","3">>
      [] cl = L4 -> <<"L","4">>
      [] cl = L5 -> <<"L","5">>
      [] OTHER   -> <<"U","n","k","n","o","w","n"," ","c","a","c","h","e"," ",
                      "l","e","v","e","l">>

(* Variant: the level compared in lower case, as the kind is.               *)
ParseCacheLevelAnyCase(level) ==
    LET s == ToLower(level) IN
    CASE s = <<"l","1">> -> [v |-> L1, err |-> NoErr]
      [] s = <<"l","2">> -> [v |-> L2, err |-> NoErr]
      [] s = <<"l","3">> -> [v |-> L3, err |-> NoErr]
      [] s = <<"l","4">> -> [v |-> L4, err |-> NoErr]
      [] s = <<"l","5">> -> [v |-> L5, err |-> NoErr]
      [] OTHER -> [v |-> UnknownCacheLevel, err |-> ErrUnknownLevel]

ParseCacheLevel(level) ==
    CASE level = <<"L","1">> -> [v |-> L1, err |-> NoErr]
      [] level = <<"L","2">> -> [v |-> L2, err |-> NoErr]
      [] level = <<"L","3">> -> [v |-> L3, err |-> NoErr]
      [] level = <<"L","4">> -> [v |-> L4, err |-> NoErr]
      [] level = <<"L","5">> -> [v |-> L5, err |-> NoErr]
      [] OTHER -> [v |-> UnknownCacheLevel, err |-> ErrUnknownLevel]

(* Variant: the level written in lower case, as the kind is.               *)
CacheLevelMarshalJSONLower(cl) == JStr(ToLower(CacheLevelString(cl)))

CacheLevelMarshalJSON(cl) == JStr(CacheLevelString(cl))

-----------------------------------------------------------------------------
(* Element.                                                                *)

(* The nil pointer, and the nil slice next to a slice holding s.           *)
Nil == [nil |-> TRUE]

NilSlice == [s |-> <<>>, nil |-> TRUE]

Slice(s) == [s |-> s, nil |-> FALSE]

ZeroElement == [Processing |-> Nil, Cache |-> Nil]

IsRoot(el) == el.Processing = Nil /\ el.Cache = Nil

IsProcessing(el) == el.Cache = Nil /\ el.Processing # Nil

IsCache(el) == el.Processing = Nil /\ el.Cache # Nil

QuotedMachine == <<Q,"m","a","c","h","i","n","e",Q>>

(* json.Marshal of a Processing / CacheAttributes / Cache struct: every    *)
(* integer field is written as the stored integer.                         *)
ProcessingJSON(p) ==
    [t |-> "obj", kind |-> ProcessingKindMarshalJSON(p.Kind), id |-> JNum(2 * p.ID)]

CacheAttributesJSON(a) ==
    IF a = Nil THEN JNull
    ELSE [t |-> "obj", size |-> JNum(2 * a.Size), line |-> JNum(2 * a.Linesize),
          ways |-> JNum(2 * a.Associativity)]

CacheJSON(c) ==
    [t |-> "obj", lvl |-> CacheLevelMarshalJSON(c.Level), li |-> JNum(2 * c.LogicalIndex),
     attrs |-> CacheAttributesJSON(c.Attributes)]

(* Variant: each tag tested on its own, the cache tag first.                *)
ElementMarshalJSONFirstTag(el) ==
    CASE IsRoot(el)       -> [err |-> NoErr, out |-> JStr(<<"m","a","c","h","i","n","e">>)]
      [] el.Cache # Nil   -> [err |-> NoErr, out |-> [t |-> "obj", cache |-> CacheJSON(el.Cache)]]
      [] OTHER            -> [err |-> NoErr,
                              out |-> [t |-> "obj", processing |-> ProcessingJSON(el.Processing)]]

ElementMarshalJSON(el) ==
    CASE IsRoot(el)       -> [err |-> NoErr, out |-> JStr(<<"m","a","c","h","i","n","e">>)]
      [] IsCache(el)      -> [err |-> NoErr, out |-> [t |-> "obj", cache |-> CacheJSON(el.Cache)]]
      [] IsProcessing(el) -> [err |-> NoErr,
                              out |-> [t |-> "obj", processing |-> ProcessingJSON(el.Processing)]]
      [] OTHER            -> [err |-> ErrInvalidElement, out |-> JNull]

(* The branch of Element.UnmarshalJSON taken when the key "processing" is  *)
(* present; el already has its Cache cleared.                              *)
UnmarshalProcessing(el, content) ==
    IF ~IsMap(content) THEN [e |-> el, err |-> ErrProcessing]
    ELSE LET kindV == Member(content, "kind")
             idV   == Member(content, "id")
         IN  IF IsString(kindV) /\ IsFloat64(idV)
             THEN LET k == ParseProcessingKind(kindV.s)
                  IN  IF k.err # NoErr THEN [e |-> el, err |-> ErrProcessingKind]
                      ELSE [e |-> [el EXCEPT !.Processing = [Kind |-> k.v, ID |-> Trunc(idV.h)]],
                            err |-> NoErr]
             ELSE [e |-> el, err |-> ErrProcessing]

(* The branch taken when "processing" is absent and "cache" is present; el *)
(* already has its Processing cleared.                                     *)
UnmarshalCache(el, content) ==
    IF ~IsMap(content) THEN [e |-> el, err |-> ErrCache]
    ELSE LET levelV == Member(content, "lvl")
             liV    == Member(content, "li")
             attrsV == Member(content, "attrs")
         IN  IF ~IsMap(attrsV) THEN [e |-> el, err |-> ErrCache]
             ELSE LET sizeV == Member(attrsV, "size")
                      lineV == Member(attrsV, "line")
                      waysV == Member(attrsV, "ways")
                  IN  IF /\ IsString(levelV) /\ IsFloat64(liV)
                         /\ IsFloat64(sizeV) /\ IsFloat64(lineV) /\ IsFloat64(waysV)
                      THEN LET l == ParseCacheLevel(levelV.s)
                           IN  IF l.err # NoErr THEN [e |-> el, err |-> ErrCacheLevel]
                               ELSE [e |-> [el EXCEPT !.Cache =
                                               [Level |-> l.v,
                                                LogicalIndex |-> Trunc(liV.h),
                                                Attributes |->
                                                   [Size |-> Trunc(sizeV.h),
                                                    Linesize |-> Trunc(lineV.h),
                                                    Associativity |-> Trunc(waysV.h)]]],
                                     err |-> NoErr]
                      ELSE [e |-> el, err |-> ErrCache]

(* Variant: the prefix that is matched lacks the closing quote.            *)
ElementUnmarshalJSONOpenPrefix(el, data) ==
    IF HasPrefix(ToLower(Bytes(data)), <<Q,"m","a","c","h","i","n","e">>)
    THEN [e |-> ZeroElement, err |-> NoErr]
    ELSE IF data.t = "raw" THEN [e |-> el, err |-> ErrSyntax]
    ELSE IF ~IsMap(data) THEN [e |-> el, err |-> ErrElement]
    ELSE IF Member(data, "processing") # Absent
         THEN UnmarshalProcessing([el EXCEPT !.Cache = Nil], Member(data, "processing"))
    ELSE IF Member(data, "cache") # Absent
         THEN UnmarshalCache([el EXCEPT !.Processing = Nil], Member(data, "cache"))
    ELSE [e |-> el, err |-> ErrElement]

(* Variant: neither branch clears the tag of the other.                     *)
ElementUnmarshalJSONKeepsTags(el, data) ==
    IF HasPrefix(ToLower(Bytes(data)), QuotedMachine)
    THEN [e |-> ZeroElement, err |-> NoErr]
    ELSE IF data.t = "raw" THEN [e |-> el, err |-> ErrSyntax]
    ELSE IF ~IsMap(data) THEN [e |-> el, err |-> ErrElement]
    ELSE IF Member(data, "processing") # Absent
         THEN UnmarshalProcessing(el, Member(data, "processing"))
    ELSE IF Member(data, "cache") # Absent
         THEN UnmarshalCache(el, Member(data, "cache"))
    ELSE [e |-> el, err |-> ErrElement]

ElementUnmarshalJSON(el, data) ==
    IF HasPrefix(ToLower(Bytes(data)), QuotedMachine)
    THEN [e |-> ZeroElement, err |-> NoErr]
    ELSE IF data.t = "raw" THEN [e |-> el, err |-> ErrSyntax]
    ELSE IF ~IsMap(data) THEN [e |-> el, err |-> ErrElement]
    ELSE IF Member(data, "processing") # Absent
         THEN UnmarshalProcessing([el EXCEPT !.Cache = Nil], Member(data, "processing"))
    ELSE IF Member(data, "cache") # Absent
         THEN UnmarshalCache([el EXCEPT !.Processing = Nil], Member(data, "cache"))
    ELSE [e |-> el, err |-> ErrElement]

-----------------------------------------------------------------------------
(* Outcomes of a call: a return without error, a return with an error, a   *)
(* panic, or a loop that never returns.                                    *)

Ok(v) == [err |-> NoErr, k |-> "ok", val |-> v]

Err(msg, v) == [err |-> msg, k |-> "err", val |-> v]

Panic(msg) == [err |-> msg, k |-> "panic", val |-> Nil]

Hang == [err |-> NoErr, k |-> "hang", val |-> Nil]

ErrTreeIsNil == "Tree is nil"

ErrTreeIsEmpty == "Tree is empty"

ErrInvalidNodeID == "Invalid NodeID"

ErrNoParent == "Root element does not have a parent"

PanicIndex == "index out of range"

PanicNilDeref == "nil pointer dereference"

PanicUnreachable == "UNREACHABLE"

-----------------------------------------------------------------------------
(* Tree.  A *Tree is Nil or [Nodes |-> slice of TreeNode]; a TreeNode is   *)
(* [Data |-> Nil or an Element, Children |-> slice of NodeID].  NodeIDs    *)
(* are 0-based, sequences 1-based: node id is Nodes.s[id + 1].             *)

NumNodes(t) == Len(t.Nodes.s)

Node(t, id) == t.Nodes.s[id + 1]

ChildrenOf(t, id) == Node(t, id).Children.s

Size(t) == IF t = Nil THEN 0 ELSE NumNodes(t)

IsEmpty(t) == IF t = Nil THEN TRUE ELSE NumNodes(t) = 0

Root(t) ==
    IF t = Nil THEN Err(ErrTreeIsNil, Nil)
    ELSE IF NumNodes(t) = 0 THEN Err(ErrTreeIsEmpty, Nil)
    ELSE Ok(Node(t, 0).Data)

(* Variant: the bound tested with > instead of >=.                         *)
GetOffByOne(t, id) ==
    IF t = Nil THEN Err(ErrTreeIsNil, Nil)
    ELSE IF id > NumNodes(t) THEN Err(ErrInvalidNodeID, Nil)
    ELSE IF id = NumNodes(t) THEN Panic(PanicIndex)
    ELSE Ok(Node(t, id).Data)

Get(t, id) ==
    IF t = Nil THEN Err(ErrTreeIsNil, Nil)
    ELSE IF id >= NumNodes(t) THEN Err(ErrInvalidNodeID, Nil)
    ELSE Ok(Node(t, id).Data)

(* Variant: an empty node list reported as Root reports it.                *)
ImmediateDescendantIDsEmptyChecked(t, id) ==
    IF t = Nil THEN Err(ErrTreeIsNil, NilSlice)
    ELSE IF NumNodes(t) = 0 THEN Err(ErrTreeIsEmpty, NilSlice)
    ELSE IF id >= NumNodes(t) THEN Err(ErrInvalidNodeID, NilSlice)
    ELSE Ok(Node(t, id).Children)

ImmediateDescendantIDs(t, id) ==
    IF t = Nil THEN Err(ErrTreeIsNil, NilSlice)
    ELSE IF id >= NumNodes(t) THEN Err(ErrInvalidNodeID, NilSlice)
    ELSE Ok(Node(t, id).Children)

ImmediateDescendants(t, id) ==
    IF t = Nil THEN Err(ErrTreeIsNil, NilSlice)
    ELSE IF id >= NumNodes(t) THEN Err(ErrInvalidNodeID, NilSlice)
    ELSE LET cs == ChildrenOf(t, id)
         IN  IF \E i \in DOMAIN cs : cs[i] >= NumNodes(t) THEN Panic(PanicIndex)
             ELSE Ok(Slice([i \in DOMAIN cs |-> Node(t, cs[i]).Data]))

(* The number of child entries of the tree, and the number of loop         *)
(* iterations after which a stack walk is known never to end: each node    *)
(* popped by a walk that ends (by returning or by panicking) stands for a  *)
(* distinct simple path of child entries from id, and there are at most    *)
(* 2^entries of those.                                                     *)
RECURSIVE NumEdges(_, _)
NumEdges(t, n) ==
    IF n = 0 THEN 0 ELSE Len(ChildrenOf(t, n - 1)) + NumEdges(t, n - 1)

WalkFuel(t) == 2 ^ NumEdges(t, NumNodes(t))

(* Variant: the popped node is collected whether or not it has children.   *)
LeafStepCollectsAll(t, stack, leafIDs) ==
    LET last == stack[Len(stack)]
        rest == SubSeq(stack, 1, Len(stack) - 1)
        cs   == ChildrenOf(t, last)
    IN  IF Len(cs) > 0
        THEN IF \E j \in DOMAIN cs : cs[j] >= NumNodes(t)
             THEN [k |-> "panic", stack |-> rest, leafIDs |-> leafIDs]
             ELSE [k |-> "ok", stack |-> rest \o cs, leafIDs |-> Append(leafIDs, last)]
        ELSE [k |-> "ok", stack |-> rest, leafIDs |-> Append(leafIDs, last)]

(* One iteration of the loop of LeafDescendantIDs: pop the last entry of   *)
(* the stack, push its children in order or collect it as a leaf.          *)
LeafStep(t, stack, leafIDs) ==
    LET last == stack[Len(stack)]
        rest == SubSeq(stack, 1, Len(stack) - 1)
        cs   == ChildrenOf(t, last)
    IN  IF Len(cs) > 0
        THEN IF \E j \in DOMAIN cs : cs[j] >= NumNodes(t)
             THEN [k |-> "panic", stack |-> rest, leafIDs |-> leafIDs]
             ELSE [k |-> "ok", stack |-> rest \o cs, leafIDs |-> leafIDs]
        ELSE [k |-> "ok", stack |-> rest, leafIDs |-> Append(leafIDs, last)]

RECURSIVE LeafLoop(_, _, _, _)
LeafLoop(t, stack, leafIDs, fuel) ==
    IF Len(stack) = 0 THEN Ok(Slice(leafIDs))
    ELSE IF fuel = 0 THEN Hang
    ELSE LET st == LeafStep(t, stack, leafIDs)
         IN  IF st.k = "panic" THEN Panic(PanicIndex)
             ELSE LeafLoop(t, st.stack, st.leafIDs, fuel - 1)

LeafDescendantIDs(t, id) ==
    IF t = Nil THEN Err(ErrTreeIsNil, NilSlice)
    ELSE IF id >= NumNodes(t) THEN Err(ErrInvalidNodeID, NilSlice)
    ELSE LeafLoop(t, <<id>>, <<>>, WalkFuel(t))

(* LeafDescendants runs the same loop over a stack of node pointers and    *)
(* collects the Data of each leaf instead of its NodeID.                   *)
LeafDescendants(t, id) ==
    IF t = Nil THEN Err(ErrTreeIsNil, NilSlice)
    ELSE IF id >= NumNodes(t) THEN Err(ErrInvalidNodeID, NilSlice)
    ELSE LET r == LeafLoop(t, <<id>>, <<>>, WalkFuel(t))
         IN  IF r.k = "ok"
             THEN Ok(Slice([i \in DOMAIN r.val.s |-> Node(t, r.val.s[i]).Data]))
             ELSE r

(* Variant: the scan starts at node 1 instead of node 0.                   *)
ScanParentSkipsRoot(t, id) ==
    LET holders == {p \in 1 .. NumNodes(t) - 1 :
                       \E j \in DOMAIN ChildrenOf(t, p) : ChildrenOf(t, p)[j] = id}
    IN  IF holders = {} THEN 0 - 1
        ELSE CHOOSE p \in holders : \A q \in holders : p <= q

(* The scan of ParentID and Parent: the first parentID, in ascending       *)
(* order, whose child list holds id; -1 when the scan falls through.       *)
ScanParent(t, id) ==
    LET holders == {p \in 0 .. NumNodes(t) - 1 :
                       \E j \in DOMAIN ChildrenOf(t, p) : ChildrenOf(t, p)[j] = id}
    IN  IF holders = {} THEN 0 - 1
        ELSE CHOOSE p \in holders : \A q \in holders : p <= q

(* Variant: the test for the root is missing.                              *)
ParentIDNoRootCheck(t, id) ==
    IF t = Nil THEN Err(ErrTreeIsNil, 0)
    ELSE IF id >= NumNodes(t) THEN Err(ErrInvalidNodeID, 0)
    ELSE IF ScanParent(t, id) < 0 THEN Panic(PanicUnreachable)
    ELSE Ok(ScanParent(t, id))

ParentID(t, id) ==
    IF t = Nil THEN Err(ErrTreeIsNil, 0)
    ELSE IF id >= NumNodes(t) THEN Err(ErrInvalidNodeID, 0)
    ELSE IF id = 0 THEN Err(ErrNoParent, 0)
    ELSE IF ScanParent(t, id) < 0 THEN Panic(PanicUnreachable)
    ELSE Ok(ScanParent(t, id))

Parent(t, id) ==
    IF t = Nil THEN Err(ErrTreeIsNil, Nil)
    ELSE IF id >= NumNodes(t) THEN Err(ErrInvalidNodeID, Nil)
    ELSE IF id = 0 THEN Err(ErrNoParent, Nil)
    ELSE IF ScanParent(t, id) < 0 THEN Panic(PanicUnreachable)
    ELSE Ok(Node(t, ScanParent(t, id)).Data)

(* The parent table of AncestorIDs and Ancestors: all zero, then for each  *)
(* parentID in ascending order every child entry is overwritten with       *)
(* parentID, so the last writer wins.  Indexed by NodeID + 1.              *)
AllAncestorIDs(t) ==
    [i \in 1 .. NumNodes(t) |->
        LET holders == {p \in 0 .. NumNodes(t) - 1 :
                           \E j \in DOMAIN ChildrenOf(t, p) : ChildrenOf(t, p)[j] = i - 1}
        IN  IF holders = {} THEN 0
            ELSE CHOOSE p \in holders : \A q \in holders : p >= q]

TableOverflows(t) ==
    \E p \in 0 .. NumNodes(t) - 1 :
        \E j \in DOMAIN ChildrenOf(t, p) : ChildrenOf(t, p)[j] >= NumNodes(t)

(* Variant: the loop appends id itself before moving to its parent.        *)
RECURSIVE AncestorLoopFromSelf(_, _, _, _)
AncestorLoopFromSelf(table, id, ancestorIDs, fuel) ==
    IF id = 0 THEN Ok(Slice(ancestorIDs))
    ELSE IF fuel = 0 THEN Hang
    ELSE AncestorLoopFromSelf(table, table[id + 1], Append(ancestorIDs, id), fuel - 1)

(* The upward loop: for ; id != 0; id = table[id] { append table[id] }.    *)
(* More iterations than there are nodes revisit a node, so never end.      *)
RECURSIVE AncestorLoop(_, _, _, _)
AncestorLoop(table, id, ancestorIDs, fuel) ==
    IF id = 0 THEN Ok(Slice(ancestorIDs))
    ELSE IF fuel = 0 THEN Hang
    ELSE AncestorLoop(table, table[id + 1], Append(ancestorIDs, table[id + 1]), fuel - 1)

(* Variant: the root is refused as ParentID refuses it.                     *)
AncestorIDsRootChecked(t, id) ==
    IF t = Nil THEN Err(ErrTreeIsNil, NilSlice)
    ELSE IF id >= NumNodes(t) THEN Err(ErrInvalidNodeID, NilSlice)
    ELSE IF id = 0 THEN Err(ErrNoParent, NilSlice)
    ELSE IF TableOverflows(t) THEN Panic(PanicIndex)
    ELSE AncestorLoop(AllAncestorIDs(t), id, <<>>, NumNodes(t))

AncestorIDs(t, id) ==
    IF t = Nil THEN Err(ErrTreeIsNil, NilSlice)
    ELSE IF id >= NumNodes(t) THEN Err(ErrInvalidNodeID, NilSlice)
    ELSE IF TableOverflows(t) THEN Panic(PanicIndex)
    ELSE AncestorLoop(AllAncestorIDs(t), id, <<>>, NumNodes(t))

Ancestors(t, id) ==
    IF t = Nil THEN Err(ErrTreeIsNil, NilSlice)
    ELSE IF id >= NumNodes(t) THEN Err(ErrInvalidNodeID, NilSlice)
    ELSE IF TableOverflows(t) THEN Panic(PanicIndex)
    ELSE LET r == AncestorLoop(AllAncestorIDs(t), id, <<>>, NumNodes(t))
         IN  IF r.k = "ok"
             THEN Ok(Slice([i \in DOMAIN r.val.s |-> Node(t, r.val.s[i]).Data]))
             ELSE r

-----------------------------------------------------------------------------
(* Topology filters.  A Topology embeds a *Tree; t.Nodes dereferences it.  *)

(* Variant: the comparison of the kind is missing.                         *)
RECURSIVE ProcessingKindLoopAnyKind(_, _, _, _)
ProcessingKindLoopAnyKind(t, kind, id, acc) ==
    IF id >= NumNodes(t) THEN Ok(Slice(acc))
    ELSE LET d == Node(t, id).Data
         IN  IF d = Nil THEN Panic(PanicNilDeref)
             ELSE ProcessingKindLoopAnyKind(t, kind, id + 1,
                      IF IsProcessing(d) THEN Append(acc, id) ELSE acc)

(* for id := range t.Nodes: ascending NodeID, appending the matches.       *)
RECURSIVE ProcessingKindLoop(_, _, _, _)
ProcessingKindLoop(t, kind, id, acc) ==
    IF id >= NumNodes(t) THEN Ok(Slice(acc))
    ELSE LET d == Node(t, id).Data
         IN  IF d = Nil THEN Panic(PanicNilDeref)
             ELSE ProcessingKindLoop(t, kind, id + 1,
                      IF IsProcessing(d) /\ d.Processing.Kind = kind
                      THEN Append(acc, id) ELSE acc)

getAllProcessingKind(t, kind) ==
    IF t = Nil THEN Panic(PanicNilDeref) ELSE ProcessingKindLoop(t, kind, 0, <<>>)

RECURSIVE CacheLevelLoop(_, _, _, _)
CacheLevelLoop(t, level, id, acc) ==
    IF id >= NumNodes(t) THEN Ok(Slice(acc))
    ELSE LET d == Node(t, id).Data
         IN  IF d = Nil THEN Panic(PanicNilDeref)
             ELSE CacheLevelLoop(t, level, id + 1,
                      IF IsCache(d) /\ d.Cache.Level = level
                      THEN Append(acc, id) ELSE acc)

getAllCacheLevel(t, level) ==
    IF t = Nil THEN Panic(PanicNilDeref) ELSE CacheLevelLoop(t, level, 0, <<>>)

-----------------------------------------------------------------------------
(* The document codec: encoding/json over Tree and TreeNode, driven by the *)
(* struct tags `json:"nodes"`, `json:"data"` and `json:"desc,omitempty"`.  *)

JArr(a) == [t |-> "arr", a |-> a]

ErrType == "json: cannot unmarshal"

(* A nil *Element is written as null, "desc" is left out when empty.       *)
TreeNodeMarshalJSON(n) ==
    LET d == IF n.Data = Nil THEN [err |-> NoErr, out |-> JNull]
             ELSE ElementMarshalJSON(n.Data)
    IN  [err |-> d.err,
         out |-> IF Len(n.Children.s) = 0
                 THEN [t |-> "obj", data |-> d.out]
                 ELSE [t |-> "obj", data |-> d.out, desc |-> JArr(n.Children.s)]]

TreeMarshalJSON(t) ==
    IF t = Nil THEN Ok(JNull)
    ELSE IF t.Nodes.nil THEN Ok([t |-> "obj", nodes |-> JNull])
    ELSE LET ns == [i \in DOMAIN t.Nodes.s |-> TreeNodeMarshalJSON(t.Nodes.s[i])]
         IN  IF \E i \in DOMAIN ns : ns[i].err # NoErr
             THEN Err(ErrInvalidElement, Nil)
             ELSE Ok([t |-> "obj", nodes |-> JArr([i \in DOMAIN ns |-> ns[i].out])])

TopologyMarshalJSON(t) == TreeMarshalJSON(t)

(* Decoding one element of "nodes" into a zero TreeNode: "data" first,     *)
(* then "desc".  An error of Element.UnmarshalJSON aborts the decoding     *)
(* (abort), a value of the wrong JSON type is recorded and skipped.        *)
TreeNodeUnmarshalJSON(obj) ==
    IF ~IsMap(obj)
    THEN [err |-> ErrType, node |-> [Children |-> NilSlice, Data |-> Nil], abort |-> FALSE]
    ELSE LET dataV == Member(obj, "data")
             descV == Member(obj, "desc")
             d == IF dataV = Absent \/ dataV = JNull THEN [e |-> Nil, err |-> NoErr]
                  ELSE ElementUnmarshalJSON(ZeroElement, dataV)
         IN  IF d.err # NoErr
             THEN [err |-> d.err, node |-> [Children |-> NilSlice, Data |-> d.e], abort |-> TRUE]
             ELSE IF descV = Absent \/ descV = JNull
             THEN [err |-> NoErr, node |-> [Children |-> NilSlice, Data |-> d.e], abort |-> FALSE]
             ELSE IF descV.t = "arr"
             THEN [err |-> NoErr, node |-> [Children |-> Slice(descV.a), Data |-> d.e],
                   abort |-> FALSE]
             ELSE [err |-> ErrType, node |-> [Children |-> NilSlice, Data |-> d.e],
                   abort |-> FALSE]

RECURSIVE NodesUnmarshalJSON(_, _, _, _)
NodesUnmarshalJSON(a, i, acc, saved) ==
    IF i > Len(a) THEN [err |-> saved, nodes |-> Slice(acc)]
    ELSE LET r == TreeNodeUnmarshalJSON(a[i])
         IN  IF r.abort THEN [err |-> r.err, nodes |-> Slice(Append(acc, r.node))]
             ELSE NodesUnmarshalJSON(a, i + 1, Append(acc, r.node),
                                     IF saved = NoErr THEN r.err ELSE saved)

(* json.Unmarshal(data, &t.Tree) on a Topology whose Tree is nil.          *)
TopologyUnmarshalJSON(doc) ==
    IF doc.t = "raw" THEN [err |-> ErrSyntax, tree |-> Nil]
    ELSE IF doc = JNull THEN [err |-> NoErr, tree |-> Nil]
    ELSE IF ~IsMap(doc) THEN [err |-> ErrType, tree |-> [Nodes |-> NilSlice]]
    ELSE LET nodesV == Member(doc, "nodes")
         IN  IF nodesV = Absent \/ nodesV = JNull
             THEN [err |-> NoErr, tree |-> [Nodes |-> NilSlice]]
             ELSE IF nodesV.t # "arr"
             THEN [err |-> ErrType, tree |-> [Nodes |-> NilSlice]]
             ELSE LET r == NodesUnmarshalJSON(nodesV.a, 1, <<>>, NoErr)
                  IN  [err |-> r.err, tree |-> [Nodes |-> r.nodes]]

-----------------------------------------------------------------------------
(* Inputs: the element tokens and the documents handed to the decoders.    *)

EmptyObj == [t |-> "obj"]

(* An object member, left out of the object when its value is Absent.      *)
Field(key, v) == IF v = Absent THEN [x \in {} |-> x] ELSE (key :> v)

StrMachine == <<"m","a","c","h","i","n","e">>

ProcessingObj(kindV, idV) == EmptyObj @@ Field("kind", kindV) @@ Field("id", idV)

AttrsObj(sizeV, lineV, waysV) ==
    EmptyObj @@ Field("size", sizeV) @@ Field("line", lineV) @@ Field("ways", waysV)

CacheObj(lvlV, liV, attrsV) ==
    EmptyObj @@ Field("lvl", lvlV) @@ Field("li", liV) @@ Field("attrs", attrsV)

ElementObj(processingV, cacheV) ==
    EmptyObj @@ Field("processing", processingV) @@ Field("cache", cacheV)

TokNUMAUpper ==
    ElementObj(ProcessingObj(JStr(<<"N","U","M","A","_","N","O","D","E">>), JNum(3)), Absent)

TokNUMALower ==
    ElementObj(ProcessingObj(JStr(<<"n","u","m","a","n","o","d","e">>), JNum(0)), Absent)

TokCore == ElementObj(ProcessingObj(JStr(<<"C","o","r","e">>), JNum(4)), Absent)

TokCacheL1 ==
    ElementObj(Absent, CacheObj(JStr(<<"L","1">>), JNum(2),
                                AttrsObj(JNum(128), JNum(17), JNum(0 - 3))))

TokMachine == JStr(StrMachine)

TokMachineTitle == JStr(<<"M","a","c","h","i","n","e">>)

TokMachineExtra == JStr(StrMachine \o <<"_","e","x","t","r","a">>)

(* Documents of the tree queries: every tree on n <= MaxNodes nodes given  *)
(* by a parent map, its child lists ascending or reversed, optionally with *)
(* one more child entry (extra = <<p, c>>) that breaks the tree.           *)
RECURSIVE Climbs(_, _, _)
Climbs(par, i, fuel) ==
    IF i = 0 THEN TRUE
    ELSE IF fuel = 0 THEN FALSE
    ELSE Climbs(par, par[i], fuel - 1)

ParentMaps(n) ==
    {par \in [1 .. n - 1 -> 0 .. n - 1] : \A i \in 1 .. n - 1 : Climbs(par, i, n)}

ChildList(n, par, rev, extra, p) ==
    LET asc  == SelectSeq([i \in 1 .. n - 1 |-> i], LAMBDA i : par[i] = p)
        base == IF rev THEN [i \in 1 .. Len(asc) |-> asc[Len(asc) + 1 - i]] ELSE asc
    IN  IF extra # <<>> /\ extra[1] = p THEN Append(base, extra[2]) ELSE base

Extras(n) == {<<>>} \cup {<<p, c>> : p \in 0 .. n - 1, c \in 0 .. n}

StdLabel(i) ==
    LET StdTokens == <<TokNUMAUpper, TokCore, TokCacheL1, TokNUMALower>>
    IN  IF i = 0 THEN TokMachine ELSE StdTokens[((i - 1) % Len(StdTokens)) + 1]

(* A leaf is written without "desc", or with an empty one when rev.        *)
MkDoc(n, par, rev, extra, label) ==
    LET NodeObj(data, list) ==
            EmptyObj @@ Field("data", data)
                     @@ Field("desc", IF list = <<>> /\ ~rev THEN Absent ELSE JArr(list))
    IN  EmptyObj @@ ("nodes" :> JArr([i \in 1 .. n |->
                         NodeObj(label[i], ChildList(n, par, rev, extra, i - 1))]))

SpecialDocs ==
    {JNull, JRaw(<<"{">>), JNum(2), EmptyObj, EmptyObj @@ ("nodes" :> JNull)}

ShapeDoc(n, par, rev, extra) ==
    MkDoc(n, par, rev, extra, [i \in 1 .. n |-> StdLabel(i - 1)])

(* Documents of the codec and the filters: every tree without an extra     *)
(* entry, every node labelled with any of the tokens.                      *)
TopoTokens ==
    <<TokMachine, TokNUMAUpper, TokNUMALower, TokCacheL1, TokMachineExtra, JNull>>

Labels(n) == [1 .. n -> 1 .. Len(TopoTokens)]

LabelledDoc(n, par, rev, label) ==
    MkDoc(n, par, rev, <<>>, [i \in 1 .. n |-> TopoTokens[label[i]]])

QueryIDs == 0 .. MaxNodes

-----------------------------------------------------------------------------
(* The state machine.  topo is the *Tree of the Topology at hand, e the    *)
(* Element at hand, ret the last call: its name, its argument and its      *)
(* outcome.  A Topology is declared (Tree nil), filled by one decode and   *)
(* read from then on.                                                      *)

Init ==
    /\ topo = Nil
    /\ e = ZeroElement
    /\ ret = [op |-> "new", arg |-> 0, res |-> Ok(Nil)]

Call(op, arg, res) ==
    /\ ret' = [op |-> op, arg |-> arg, res |-> res]
    /\ UNCHANGED <<topo, e>>

UnmarshalJSON(docs) ==
    /\ ret.op = "new"
    /\ \E doc \in docs :
         LET r == TopologyUnmarshalJSON(doc)
         IN  /\ topo' = r.tree
             /\ ret' = [op |-> "UnmarshalJSON", arg |-> doc,
                        res |-> IF r.err = NoErr THEN Ok(Nil) ELSE Err(r.err, Nil)]
    /\ UNCHANGED e

(* The documents a fresh Topology is decoded from: the special ones, every *)
(* shape with the standard labels, every labelling of every tree.          *)
DecodeSpecial == UnmarshalJSON(SpecialDocs)

DecodeShape ==
    /\ ret.op = "new"
    /\ \E n \in 0 .. MaxNodes :
         \E par \in ParentMaps(n), rev \in BOOLEAN, extra \in Extras(n) :
            UnmarshalJSON({ShapeDoc(n, par, rev, extra)})

DecodeLabelled ==
    /\ ret.op = "new"
    /\ \E n \in 0 .. MaxNodes :
         \E par \in ParentMaps(n), rev \in BOOLEAN, label \in Labels(n) :
            UnmarshalJSON({LabelledDoc(n, par, rev, label)})

MarshalJSON == Call("MarshalJSON", 0, TopologyMarshalJSON(topo))

CallSize == Call("Size", 0, Ok(Size(topo)))

CallIsEmpty == Call("IsEmpty", 0, Ok(IsEmpty(topo)))

CallRoot == Call("Root", 0, Root(topo))

CallGet == \E id \in QueryIDs : Call("Get", id, Get(topo, id))

CallImmediateDescendantIDs ==
    \E id \in QueryIDs : Call("ImmediateDescendantIDs", id, ImmediateDescendantIDs(topo, id))

CallImmediateDescendants ==
    \E id \in QueryIDs : Call("ImmediateDescendants", id, ImmediateDescendants(topo, id))

CallLeafDescendantIDs ==
    \E id \in QueryIDs : Call("LeafDescendantIDs", id, LeafDescendantIDs(topo, id))

CallLeafDescendants ==
    \E id \in QueryIDs : Call("LeafDescendants", id, LeafDescendants(topo, id))

CallParentID == \E id \in QueryIDs : Call("ParentID", id, ParentID(topo, id))

CallParent == \E id \in QueryIDs : Call("Parent", id, Parent(topo, id))

CallAncestorIDs == \E id \in QueryIDs : Call("AncestorIDs", id, AncestorIDs(topo, id))

CallAncestors == \E id \in QueryIDs : Call("Ancestors", id, Ancestors(topo, id))

Packages == Call("Packages", Package, getAllProcessingKind(topo, Package))

NUMANodes == Call("NUMANodes", NUMANode, getAllProcessingKind(topo, NUMANode))

Cores == Call("Cores", Core, getAllProcessingKind(topo, Core))

Threads == Call("Threads", Thread, getAllProcessingKind(topo, Thread))

L1Caches == Call("L1Caches", L1, getAllCacheLevel(topo, L1))

L2Caches == Call("L2Caches", L2, getAllCacheLevel(topo, L2))

L3Caches == Call("L3Caches", L3, getAllCacheLevel(topo, L3))

L4Caches == Call("L4Caches", L4, getAllCacheLevel(topo, L4))

L5Caches == Call("L5Caches", L5, getAllCacheLevel(topo, L5))

(* The tree queries over documents of every shape.                         *)
Next ==
    \/ DecodeSpecial
    \/ DecodeShape
    \/ CallSize
    \/ CallIsEmpty
    \/ CallRoot
    \/ CallGet
    \/ CallImmediateDescendantIDs
    \/ CallImmediateDescendants
    \/ CallLeafDescendantIDs
    \/ CallLeafDescendants
    \/ CallParentID
    \/ CallParent
    \/ CallAncestorIDs
    \/ CallAncestors

Spec == Init /\ [][Next]_vars

(* The document codec and the filters over documents of every labelling.   *)
NextTopo ==
    \/ DecodeSpecial
    \/ DecodeLabelled
    \/ MarshalJSON
    \/ Packages
    \/ NUMANodes
    \/ Cores
    \/ Threads
    \/ L1Caches
    \/ L2Caches
    \/ L3Caches
    \/ L4Caches
    \/ L5Caches

SpecTopo == Init /\ [][NextTopo]_vars

-----------------------------------------------------------------------------
(* The Element codec on its own: Element.UnmarshalJSON is called, with any *)
(* input, on the Element at hand, whatever an earlier call left in it; pre *)
(* is the Element as the call found it.                                    *)

ElemInputs ==
    LET TextInputs ==
            {TokMachine, TokMachineTitle, TokMachineExtra,
             JStr(<<"M","A","C","H","I","N","E">>),
             JStr(<<"M","A","C","H","I","N","E","_","E","X","T","R","A">>),
             JStr(<<"m","a","c","h">>),
             JStr(<<"c","o","r","e">>),
             JRaw(<<Q>> \o StrMachine \o <<Q, "x">>),
             JRaw(<<Q>> \o StrMachine),
             JRaw(StrMachine),
             JNull, JNum(2), JArr(<<>>)}

        KindInputs ==
            {JStr(<<"c","o","r","e">>), JStr(<<"N","U","M","A","_","N","O","D","E">>),
             JStr(<<"n","u","m","a","n","o","d","e">>), JStr(<<"P","a","c","k","a","g","e">>),
             JStr(<<"T","H","R","E","A","D">>), JStr(<<"b","o","g","u","s">>), JNum(2), Absent}

        IdInputs == {JNum(0), JNum(3), JStr(<<"1">>), Absent}

        ProcessingInputs ==
            {JNull, JStr(<<"c","o","r","e">>)} \cup
            {ProcessingObj(k, i) : k \in KindInputs, i \in IdInputs}

        LevelInputs == {JStr(<<"L","1">>), JStr(<<"l","1">>), JStr(<<"L","5">>), JNum(2), Absent}

        AttrsInputs ==
            {Absent, JNull,
             AttrsObj(JNum(128), JNum(17), JNum(0 - 3)),
             AttrsObj(JNum(64), JNum(16), JNum(8)),
             AttrsObj(JNum(64), JNum(16), Absent),
             AttrsObj(JStr(<<"6","4">>), JNum(16), JNum(8))}

        CacheInputs ==
            {JNull} \cup
            {CacheObj(l, i, a) : l \in LevelInputs, i \in {JNum(2), Absent}, a \in AttrsInputs}

        BothInputs ==
            {ElementObj(p, c) :
                p \in {JNull, ProcessingObj(JStr(<<"c","o","r","e">>), JNum(0)),
                       ProcessingObj(JStr(<<"b","o","g","u","s">>), JNum(0))},
                c \in {JNull, CacheObj(JStr(<<"L","1">>), JNum(2), AttrsObj(JNum(64), JNum(16), JNum(8)))}}
    IN  TextInputs \cup {EmptyObj, EmptyObj @@ ("other" :> JNum(2))}
        \cup {ElementObj(p, Absent) : p \in ProcessingInputs}
        \cup {ElementObj(Absent, c) : c \in CacheInputs}
        \cup BothInputs

ElemUnmarshal ==
    /\ \E data \in ElemInputs :
         LET r == ElementUnmarshalJSON(e, data)
         IN  /\ e' = r.e
             /\ ret' = [op |-> "Element.UnmarshalJSON", arg |-> data,
                        res |-> IF r.err = NoErr THEN Ok(Nil) ELSE Err(r.err, Nil),
                        pre |-> e]
    /\ UNCHANGED topo

ElemMarshal ==
    /\ ret' = [op |-> "Element.MarshalJSON", arg |-> 0,
               res |-> LET r == ElementMarshalJSON(e)
                       IN  IF r.err = NoErr THEN Ok(r.out) ELSE Err(r.err, Nil)]
    /\ UNCHANGED <<topo, e>>

NextElem ==
    \/ ElemUnmarshal
    \/ ElemMarshal

SpecElem == Init /\ [][NextElem]_vars

-----------------------------------------------------------------------------
(* Topologies built by hand.  The fields of Topology, Tree, TreeNode and   *)
(* Element are exported, so a caller can write any of them as a composite  *)
(* literal: a nil *Element, an Element with no tag, one tag or both tags,  *)
(* at any NodeID.  The literal is then encoded, as a whole or node by node.*)

HandProcessing == [Kind |-> Core, ID |-> 4]

HandCache ==
    [Level |-> L1, LogicalIndex |-> 1,
     Attributes |-> [Size |-> 32, Linesize |-> 8, Associativity |-> 4]]

HandElements ==
    {Nil,
     ZeroElement,
     [Processing |-> HandProcessing, Cache |-> Nil],
     [Processing |-> [Kind |-> UnknownProcessingKind, ID |-> 0], Cache |-> Nil],
     [Processing |-> Nil, Cache |-> HandCache],
     [Processing |-> HandProcessing, Cache |-> HandCache]}

HandTree(n, par, data) ==
    [Nodes |-> Slice([i \in 1 .. n |->
        LET kids == ChildList(n, par, FALSE, <<>>, i - 1)
        IN  [Children |-> IF kids = <<>> THEN NilSlice ELSE Slice(kids),
             Data |-> data[i]]])]

NewTopology ==
    /\ ret.op = "new"
    /\ \E n \in 0 .. MaxNodes :
         \E par \in ParentMaps(n), data \in [1 .. n -> HandElements] :
            /\ topo' = HandTree(n, par, data)
            /\ ret' = [op |-> "Topology{}", arg |-> n, res |-> Ok(Nil)]
    /\ UNCHANGED e

(* t.Nodes[id].Data.MarshalJSON(): the receiver is dereferenced by IsRoot.  *)
NodeMarshalJSON(t, id) ==
    IF t = Nil THEN Panic(PanicNilDeref)
    ELSE IF id >= NumNodes(t) THEN Panic(PanicIndex)
    ELSE IF Node(t, id).Data = Nil THEN Panic(PanicNilDeref)
    ELSE LET r == ElementMarshalJSON(Node(t, id).Data)
         IN  IF r.err = NoErr THEN Ok(r.out) ELSE Err(r.err, Nil)

NodeMarshal ==
    \E id \in QueryIDs : Call("Element.MarshalJSON", id, NodeMarshalJSON(topo, id))

NextBuild ==
    \/ NewTopology
    \/ MarshalJSON
    \/ NodeMarshal

SpecBuild == Init /\ [][NextBuild]_vars

-----------------------------------------------------------------------------
(* The enumerations on their own: the parsers called with a string, the    *)
(* encoders with a value.  The strings are the accepted names written in   *)
(* every letter case, and strings that are no accepted name.               *)

ToUpperChar(c) ==
    IF \E i \in DOMAIN LowerChars : LowerChars[i] = c
    THEN UpperChars[CHOOSE i \in DOMAIN LowerChars : LowerChars[i] = c]
    ELSE c

CaseVariants(name) ==
    {[i \in DOMAIN name |-> IF up[i] THEN ToUpperChar(name[i]) ELSE name[i]] :
        up \in [DOMAIN name -> BOOLEAN]}

KindStrings ==
    CaseVariants(<<"p","a","c","k","a","g","e">>) \cup CaseVariants(<<"n","u","m","a","_","n","o","d","e">>)
    \cup CaseVariants(<<"n","u","m","a","n","o","d","e">>) \cup CaseVariants(<<"c","o","r","e">>)
    \cup CaseVariants(<<"t","h","r","e","a","d">>)
    \cup {<<>>, <<"b","o","g","u","s">>, <<"n","u","m","a","-","n","o","d","e">>, <<"n","u","m","a"," ","n","o","d","e">>, <<"c","o","r","e","s">>, <<"p","a","c","k","a","g">>,
          ToLower(ProcessingKindString(UnknownProcessingKind)), <<"L","1">>}

LevelStrings ==
    UNION {CaseVariants(<<"l", d>>) : d \in {"0","1","2","3","4","5","6"}}
    \cup {<<>>, <<"L">>, <<"1">>, <<"L","1","0">>, <<" ","L","1">>, <<"c","o","r","e">>}

CallParseProcessingKind ==
    \E str \in KindStrings :
        LET r == ParseProcessingKind(str)
        IN  Call("ParseProcessingKind", str,
                 IF r.err = NoErr THEN Ok(r.v) ELSE Err(r.err, r.v))

CallParseCacheLevel ==
    \E level \in LevelStrings :
        LET r == ParseCacheLevel(level)
        IN  Call("ParseCacheLevel", level,
                 IF r.err = NoErr THEN Ok(r.v) ELSE Err(r.err, r.v))

CallProcessingKindMarshalJSON ==
    \E pk \in UnknownProcessingKind .. Thread :
        Call("ProcessingKind.MarshalJSON", pk, Ok(ProcessingKindMarshalJSON(pk)))

CallCacheLevelMarshalJSON ==
    \E cl \in UnknownCacheLevel .. L5 :
        Call("CacheLevel.MarshalJSON", cl, Ok(CacheLevelMarshalJSON(cl)))

NextEnum ==
    \/ CallParseProcessingKind
    \/ CallParseCacheLevel
    \/ CallProcessingKindMarshalJSON
    \/ CallCacheLevelMarshalJSON

SpecEnum == Init /\ [][NextEnum]_vars

-----------------------------------------------------------------------------
(* The traversals step by step.  A call of LeafDescendantIDs,              *)
(* LeafDescendants, AncestorIDs or Ancestors that has passed its checks is *)
(* running: its outcome is a frame holding the locals of its loop, and     *)
(* each step is one evaluation of the loop condition followed by one       *)
(* iteration of the body or by the return.  fuel counts the iterations     *)
(* left before the loop is known never to end.                             *)

Running(frame) == [err |-> NoErr, k |-> "run", val |-> frame]

LeafOps == {"LeafDescendantIDs", "LeafDescendants"}

AncestorOps == {"AncestorIDs", "Ancestors"}

Returns == ret.res.k \notin {"run", "hang"}

(* ret.val of a finished walk: the NodeIDs, or the Data stored under them. *)
Collected(op, t, ids) ==
    IF op \in {"LeafDescendants", "Ancestors"}
    THEN Slice([i \in DOMAIN ids |-> Node(t, ids[i]).Data])
    ELSE Slice(ids)

BeginLeafWalk ==
    /\ Returns
    /\ \E op \in LeafOps, id \in QueryIDs :
         Call(op, id,
              IF topo = Nil THEN Err(ErrTreeIsNil, NilSlice)
              ELSE IF id >= NumNodes(topo) THEN Err(ErrInvalidNodeID, NilSlice)
              ELSE Running([stack |-> <<id>>, leafIDs |-> <<>>, fuel |-> WalkFuel(topo)]))

LeafWalkStep ==
    /\ ret.op \in LeafOps
    /\ ret.res.k = "run"
    /\ LET f == ret.res.val
       IN  Call(ret.op, ret.arg,
                IF Len(f.stack) = 0 THEN Ok(Collected(ret.op, topo, f.leafIDs))
                ELSE IF f.fuel = 0 THEN Hang
                ELSE LET st == LeafStep(topo, f.stack, f.leafIDs)
                     IN  IF st.k = "panic" THEN Panic(PanicIndex)
                         ELSE Running([stack |-> st.stack, leafIDs |-> st.leafIDs,
                                       fuel |-> f.fuel - 1]))

(* Variant: the post statement id = allAncestorIDs[id] is missing.         *)
AncestorStepStays(table, id, ancestorIDs) ==
    [id |-> id, ancestorIDs |-> Append(ancestorIDs, table[id + 1])]

(* One iteration of the upward loop: the body, then the post statement.    *)
AncestorStep(table, id, ancestorIDs) ==
    [id |-> table[id + 1], ancestorIDs |-> Append(ancestorIDs, table[id + 1])]

BeginAncestorWalk ==
    /\ Returns
    /\ \E op \in AncestorOps, id \in QueryIDs :
         Call(op, id,
              IF topo = Nil THEN Err(ErrTreeIsNil, NilSlice)
              ELSE IF id >= NumNodes(topo) THEN Err(ErrInvalidNodeID, NilSlice)
              ELSE IF TableOverflows(topo) THEN Panic(PanicIndex)
              ELSE Running([id |-> id, fuel |-> NumNodes(topo),
                            table |-> AllAncestorIDs(topo), ancestorIDs |-> <<>>]))

AncestorWalkStep ==
    /\ ret.op \in AncestorOps
    /\ ret.res.k = "run"
    /\ LET f == ret.res.val
       IN  Call(ret.op, ret.arg,
                IF f.id = 0 THEN Ok(Collected(ret.op, topo, f.ancestorIDs))
                ELSE IF f.fuel = 0 THEN Hang
                ELSE LET st == AncestorStep(f.table, f.id, f.ancestorIDs)
                     IN  Running([id |-> st.id, fuel |-> f.fuel - 1,
                                  table |-> f.table, ancestorIDs |-> st.ancestorIDs]))

NextWalk ==
    \/ DecodeSpecial
    \/ DecodeShape
    \/ BeginLeafWalk
    \/ LeafWalkStep
    \/ BeginAncestorWalk
    \/ AncestorWalkStep

(* A call that is running keeps running: its next step is always taken.    *)
SpecWalk ==
    /\ Init
    /\ [][NextWalk]_vars
    /\ WF_vars(LeafWalkStep)
    /\ WF_vars(AncestorWalkStep)

-----------------------------------------------------------------------------
(* Vocabulary of the properties.                                           *)

Range(s) == {s[i] : i \in DOMAIN s}

BoundsChecked ==
    {"Get", "ImmediateDescendantIDs", "ImmediateDescendants", "LeafDescendantIDs",
     "LeafDescendants", "ParentID", "Parent", "AncestorIDs", "Ancestors"}

(* What a failed query returns next to its error.                          *)
NoResult(op) ==
    CASE op \in {"Root", "Get", "Parent"} -> Nil
      [] op = "ParentID"          -> 0
      [] OTHER                    -> NilSlice

Decoded == ret.op = "UnmarshalJSON" /\ ret.res.k = "ok"

(* Structural equality of two trees: the same node count, the same Element *)
(* and the same child list in the same order at every NodeID, a nil child  *)
(* list counting as the empty one.                                         *)
StructEq(a, b) ==
    /\ Size(a) = Size(b)
    /\ \A id \in 0 .. Size(a) - 1 :
         /\ Node(a, id).Data = Node(b, id).Data
         /\ ChildrenOf(a, id) = ChildrenOf(b, id)

(* C1: every topology obtained by a successful decode encodes without error,
   and decoding the encoding gives a structurally equal topology. *)
RoundTrip ==
    Decoded =>
        LET enc == TopologyMarshalJSON(topo)
        IN  /\ enc.k = "ok"
            /\ LET dec == TopologyUnmarshalJSON(enc.val)
               IN  /\ dec.err = NoErr
                   /\ StructEq(dec.tree, topo)

RoundTripWitness ==
    /\ Decoded
    /\ Size(topo) >= 3
    /\ \E id \in 0 .. Size(topo) - 1 :
         /\ Len(ChildrenOf(topo, id)) >= 2
         /\ ChildrenOf(topo, id)[1] > ChildrenOf(topo, id)[2]
    /\ \E id \in 0 .. Size(topo) - 1 :
         Node(topo, id).Data # Nil /\ IsCache(Node(topo, id).Data)
    /\ \E id \in 0 .. Size(topo) - 1 :
         Node(topo, id).Data # Nil /\ IsProcessing(Node(topo, id).Data)
    /\ StructEq(TopologyUnmarshalJSON(TopologyMarshalJSON(topo).val).tree, topo)

(* C2: in every tree produced by a successful decode the element at NodeID 0
   is Root and no element at another NodeID is Root. *)
RootInvariant ==
    (Decoded /\ Size(topo) > 0) =>
        /\ Node(topo, 0).Data # Nil => IsRoot(Node(topo, 0).Data)
        /\ \A id \in 1 .. Size(topo) - 1 :
             ~(Node(topo, id).Data # Nil /\ IsRoot(Node(topo, id).Data))

(* C3: on a tree with at least one node, every bounds-checked query fails
   with the InvalidNodeID error and no result when id >= node count, and does
   not return InvalidNodeID when id < node count. *)
InvalidNodeIDIffOutOfRange ==
    (ret.op \in BoundsChecked /\ Size(topo) >= 1) =>
        /\ ret.arg >= Size(topo) =>
              ret.res = Err(ErrInvalidNodeID, NoResult(ret.op))
        /\ ret.arg < Size(topo) => ret.res.err # ErrInvalidNodeID

InvalidNodeIDWitness ==
    /\ ret.op = "AncestorIDs"
    /\ Size(topo) >= 2
    /\ ret.arg >= Size(topo)
    /\ ret.res.err = ErrInvalidNodeID

(* C4 as stated: on a tree with zero nodes, nil or not, the bounds-checked
   queries and Root fail with the EmptyOrNilTree error, Size returns 0 and
   IsEmpty returns true. *)
ZeroNodesEmptyOrNilTree ==
    Size(topo) = 0 =>
        /\ ret.op \in BoundsChecked \cup {"Root"} =>
              ret.res.k = "err" /\ ret.res.err \in {ErrTreeIsNil, ErrTreeIsEmpty}
        /\ ret.op = "Size" => ret.res = Ok(0)
        /\ ret.op = "IsEmpty" => ret.res = Ok(TRUE)

(* C4 amended: on a nil tree the bounds-checked queries and Root fail with
   "Tree is nil"; on a non-nil tree with zero nodes the bounds-checked queries
   fail with InvalidNodeID for every id and Root fails with "Tree is empty";
   in both cases Size returns 0 and IsEmpty returns true. *)
ZeroNodesErrors ==
    Size(topo) = 0 =>
        /\ (topo = Nil /\ ret.op \in BoundsChecked \cup {"Root"}) =>
              ret.res = Err(ErrTreeIsNil, NoResult(ret.op))
        /\ (topo # Nil /\ ret.op \in BoundsChecked) =>
              ret.res = Err(ErrInvalidNodeID, NoResult(ret.op))
        /\ (topo # Nil /\ ret.op = "Root") => ret.res = Err(ErrTreeIsEmpty, Nil)
        /\ ret.op = "Size" => ret.res = Ok(0)
        /\ ret.op = "IsEmpty" => ret.res = Ok(TRUE)

ZeroNodesWitness ==
    /\ topo # Nil
    /\ Size(topo) = 0
    /\ ret.op = "ParentID"
    /\ ret.arg = 0
    /\ ret.res.err = ErrInvalidNodeID

(* C5 as stated: a parent query with id 0 fails with NoParent on every tree
   it is made on. *)
RootHasNoParentAlways ==
    (ret.op \in {"ParentID", "Parent"} /\ ret.arg = 0) =>
        ret.res.k = "err" /\ ret.res.err = ErrNoParent

(* C5 amended: a parent query with id 0 fails with NoParent on every tree
   that has at least one node; on a nil tree it fails with "Tree is nil" and
   on a tree with zero nodes with InvalidNodeID. *)
RootHasNoParent ==
    (ret.op \in {"ParentID", "Parent"} /\ ret.arg = 0) =>
        /\ Size(topo) >= 1 => ret.res = Err(ErrNoParent, NoResult(ret.op))
        /\ topo = Nil => ret.res = Err(ErrTreeIsNil, NoResult(ret.op))
        /\ (topo # Nil /\ Size(topo) = 0) =>
              ret.res = Err(ErrInvalidNodeID, NoResult(ret.op))

RootHasNoParentWitness ==
    /\ ret.op = "Parent"
    /\ ret.arg = 0
    /\ Size(topo) >= 2
    /\ ret.res.err = ErrNoParent

-----------------------------------------------------------------------------
(* Valid trees: every child entry names a node, node 0 is listed by no     *)
(* node, every other node by exactly one entry, and every node climbs to   *)
(* node 0.                                                                 *)

Holders(t, n) ==
    {x \in UNION {{<<p, j>> : j \in DOMAIN ChildrenOf(t, p)} : p \in 0 .. Size(t) - 1} :
        ChildrenOf(t, x[1])[x[2]] = n}

ParentOf(t, n) == (CHOOSE x \in Holders(t, n) : TRUE)[1]

RECURSIVE DepthOf(_, _, _)
DepthOf(t, n, fuel) ==
    IF n = 0 THEN 0
    ELSE IF fuel = 0 \/ Holders(t, n) = {} THEN 0 - 1
    ELSE LET d == DepthOf(t, ParentOf(t, n), fuel - 1)
         IN  IF d < 0 THEN 0 - 1 ELSE d + 1

ValidTree(t) ==
    /\ Size(t) >= 1
    /\ \A p \in 0 .. Size(t) - 1 : \A c \in Range(ChildrenOf(t, p)) : c < Size(t)
    /\ Holders(t, 0) = {}
    /\ \A n \in 1 .. Size(t) - 1 : Cardinality(Holders(t, n)) = 1
    /\ \A n \in 0 .. Size(t) - 1 : DepthOf(t, n, Size(t)) >= 0

RECURSIVE InSubtree(_, _, _)
InSubtree(t, n, m) == m = n \/ (m # 0 /\ InSubtree(t, n, ParentOf(t, m)))

LeavesUnder(t, n) ==
    {m \in 0 .. Size(t) - 1 : Len(ChildrenOf(t, m)) = 0 /\ InSubtree(t, n, m)}

(* C6: on a valid tree AncestorIDs(n) succeeds and returns the chain of
   parents of n: n is not in it, its first entry is the parent of n, each
   later entry is the parent of the entry before it, its last entry is 0, and
   its length is the depth of n. *)
AncestorIDsIsParentChain ==
    (ret.op = "AncestorIDs" /\ ValidTree(topo) /\ ret.arg < Size(topo)) =>
        /\ ret.res.k = "ok"
        /\ LET a == ret.res.val.s
           IN  /\ Len(a) = DepthOf(topo, ret.arg, Size(topo))
               /\ ret.arg \notin Range(a)
               /\ Len(a) > 0 => (a[1] = ParentOf(topo, ret.arg) /\ a[Len(a)] = 0)
               /\ \A i \in 1 .. Len(a) - 1 : a[i + 1] = ParentOf(topo, a[i])

AncestorIDsWitness ==
    /\ ret.op = "AncestorIDs"
    /\ ValidTree(topo)
    /\ ret.res.k = "ok"
    /\ Len(ret.res.val.s) = 2
    /\ ret.res.val.s[1] > ret.arg

(* C7: on a valid tree LeafDescendantIDs(n) returns exactly the leaves of the
   subtree rooted at n, each once. *)
LeafDescendantIDsExact ==
    (ret.op = "LeafDescendantIDs" /\ ValidTree(topo) /\ ret.arg < Size(topo)) =>
        /\ ret.res.k = "ok"
        /\ Range(ret.res.val.s) = LeavesUnder(topo, ret.arg)
        /\ Len(ret.res.val.s) = Cardinality(LeavesUnder(topo, ret.arg))

LeafDescendantIDsWitness ==
    /\ ret.op = "LeafDescendantIDs"
    /\ ValidTree(topo)
    /\ ret.arg = 0
    /\ ret.res.k = "ok"
    /\ Len(ret.res.val.s) = 2
    /\ ret.res.val.s[1] > ret.res.val.s[2]

(* C8: on a valid tree, for n > 0, ParentID(n) succeeds and returns the one
   node whose child list contains n, Parent(n) returns the element stored at
   that node, and ParentID(c) = p for every p and every c among the immediate
   descendants of p. *)
ParentIDIsHolder ==
    ValidTree(topo) =>
        /\ (ret.op = "ParentID" /\ ret.arg > 0 /\ ret.arg < Size(topo)) =>
              /\ ret.res.k = "ok"
              /\ ret.arg \in Range(ChildrenOf(topo, ret.res.val))
              /\ \A q \in 0 .. Size(topo) - 1 :
                    ret.arg \in Range(ChildrenOf(topo, q)) => q = ret.res.val
        /\ (ret.op = "Parent" /\ ret.arg > 0 /\ ret.arg < Size(topo)) =>
              ret.res = Ok(Node(topo, ParentOf(topo, ret.arg)).Data)
        /\ \A p \in 0 .. Size(topo) - 1 :
              \A c \in Range(ImmediateDescendantIDs(topo, p).val.s) :
                  ParentID(topo, c) = Ok(p)

ParentIDWitness ==
    /\ ret.op = "ParentID"
    /\ ValidTree(topo)
    /\ ret.res.k = "ok"
    /\ ret.res.val > 0
    /\ ret.res.val > ret.arg

(* C9: on a topology whose nodes all carry an element, each filter returns
   exactly the NodeIDs whose element is a Processing of its kind (a Cache of
   its level), each once and in ascending order, as a non-nil sequence that is
   empty when no node matches, without an error. *)
KindOfFilter(op) ==
    CASE op = "Packages" -> Package
      [] op = "NUMANodes" -> NUMANode
      [] op = "Cores" -> Core
      [] op = "Threads" -> Thread

LevelOfFilter(op) ==
    CASE op = "L1Caches" -> L1
      [] op = "L2Caches" -> L2
      [] op = "L3Caches" -> L3
      [] op = "L4Caches" -> L4
      [] op = "L5Caches" -> L5

Matching(op) ==
    IF op \in {"Packages", "NUMANodes", "Cores", "Threads"}
    THEN {id \in 0 .. Size(topo) - 1 :
             /\ IsProcessing(Node(topo, id).Data)
             /\ Node(topo, id).Data.Processing.Kind = KindOfFilter(op)}
    ELSE {id \in 0 .. Size(topo) - 1 :
             /\ IsCache(Node(topo, id).Data)
             /\ Node(topo, id).Data.Cache.Level = LevelOfFilter(op)}

StartsWithMachine(data) == HasPrefix(ToLower(Bytes(data)), <<Q>> \o StrMachine)

MachinePrefixDecodesAsRoot ==
    (ret.op = "Element.UnmarshalJSON" /\ StartsWithMachine(ret.arg)) =>
        ret.res.k = "ok" /\ IsRoot(e)

(* C10 amended: the prefix that is matched, case-insensitively, is the quoted
   token "machine" with both of its quotes: an input that starts with it
   decodes as Root without error, and a string token that only starts with
   machine, such as "machine_extra", fails with a decode error. *)
QuotedMachinePrefixDecodesAsRoot ==
    ret.op = "Element.UnmarshalJSON" =>
        /\ HasPrefix(ToLower(Bytes(ret.arg)), QuotedMachine) =>
              ret.res.k = "ok" /\ IsRoot(e)
        /\ (/\ ret.arg.t = "str"
            /\ StartsWithMachine(ret.arg)
            /\ ToLower(ret.arg.s) # StrMachine) =>
              ret.res = Err(ErrElement, Nil)

QuotedMachineWitness ==
    /\ ret.op = "Element.UnmarshalJSON"
    /\ ret.arg = JRaw(<<Q>> \o StrMachine \o <<Q, "x">>)
    /\ ret.res.k = "ok"
    /\ IsRoot(e)

(* C11: decoding a non-root Element succeeds only if the input is an object
   containing exactly one of the keys processing and cache: an object with
   neither key fails with a decode error, and so does an object with both. *)
HasKey(data, key) == IsMap(data) /\ Member(data, key) # Absent

ExactlyOneKeyDecodes ==
    (/\ ret.op = "Element.UnmarshalJSON"
     /\ ~HasPrefix(ToLower(Bytes(ret.arg)), QuotedMachine)) =>
        /\ ret.res.k = "ok" =>
              /\ IsMap(ret.arg)
              /\ HasKey(ret.arg, "processing") # HasKey(ret.arg, "cache")
        /\ (/\ IsMap(ret.arg)
            /\ ~HasKey(ret.arg, "processing")
            /\ ~HasKey(ret.arg, "cache")) => ret.res = Err(ErrElement, Nil)
        /\ (HasKey(ret.arg, "processing") /\ HasKey(ret.arg, "cache")) =>
              ret.res.k = "err"

(* C12 as stated: Element encoding selects its output by tag state, Root as
   the bare token machine, Processing as an object with the single key
   processing, Cache as an object with the single key cache, and every other
   state fails with InvalidElement: both tags set, and no tag set anywhere
   but at NodeID 0. *)
Encoded == ret.op = "Element.MarshalJSON" /\ ret.res.k # "panic"

TagStateEncoding(el, res) ==
    /\ IsRoot(el) => res = Ok(JStr(StrMachine))
    /\ IsProcessing(el) =>
          /\ res.k = "ok"
          /\ DOMAIN res.val = {"t", "processing"}
          /\ res.val.processing = ProcessingJSON(el.Processing)
    /\ IsCache(el) =>
          /\ res.k = "ok"
          /\ DOMAIN res.val = {"t", "cache"}
          /\ res.val.cache = CacheJSON(el.Cache)
    /\ (el.Processing # Nil /\ el.Cache # Nil) => res = Err(ErrInvalidElement, Nil)

EncodingByTagAndPosition ==
    Encoded =>
        LET el == Node(topo, ret.arg).Data
        IN  IF IsRoot(el) /\ ret.arg # 0
            THEN ret.res = Err(ErrInvalidElement, Nil)
            ELSE TagStateEncoding(el, ret.res)

(* C12 amended: the output is selected by the tag state alone, at every
   NodeID: no tag encodes as the bare token machine, one tag as the object
   with that single key, and only both tags set fails with InvalidElement;
   the encoding of a whole topology fails exactly when some node holds an
   element with both tags set. *)
EncodingByTagState ==
    /\ Encoded => TagStateEncoding(Node(topo, ret.arg).Data, ret.res)
    /\ (ret.op = "MarshalJSON" /\ topo # Nil) =>
          (ret.res.k = "err" <=>
             \E id \in 0 .. NumNodes(topo) - 1 :
                LET el == Node(topo, id).Data
                IN  el # Nil /\ el.Processing # Nil /\ el.Cache # Nil)

EncodingByTagStateWitness ==
    /\ Encoded
    /\ ret.arg = 1
    /\ NumNodes(topo) = 3
    /\ IsRoot(Node(topo, 1).Data)
    /\ ret.res = Ok(JStr(StrMachine))
    /\ Node(topo, 2).Data # Nil
    /\ Node(topo, 2).Data.Processing # Nil
    /\ Node(topo, 2).Data.Cache # Nil

(* C13: enumeration parsing inverts the wire form with asymmetric case
   rules.  The wire form of a kind is its lower-cased name and parsing that
   name written in any letter case returns the kind, "NUMA_NODE" in any case
   returning NUMANode as well; the wire form of a level is its exact token
   and parsing returns the level for that token only, so "l1" fails; every
   other string fails and yields the Unknown sentinel. *)
KindName(pk) ==
    CASE pk = Package  -> <<"p","a","c","k","a","g","e">>
      [] pk = NUMANode -> <<"n","u","m","a","n","o","d","e">>
      [] pk = Core     -> <<"c","o","r","e">>
      [] pk = Thread   -> <<"t","h","r","e","a","d">>

LevelName(cl) ==
    CASE cl = L1 -> <<"L","1">>
      [] cl = L2 -> <<"L","2">>
      [] cl = L3 -> <<"L","3">>
      [] cl = L4 -> <<"L","4">>
      [] cl = L5 -> <<"L","5">>

SameLetters(str, name) ==
    /\ Len(str) = Len(name)
    /\ \A i \in DOMAIN name : str[i] = name[i] \/ str[i] = ToUpperChar(name[i])

NamesKind(str, pk) ==
    \/ SameLetters(str, KindName(pk))
    \/ pk = NUMANode /\ SameLetters(str, <<"n","u","m","a","_","n","o","d","e">>)

EnumParsing ==
    /\ ret.op = "ProcessingKind.MarshalJSON" /\ ret.arg \in Package .. Thread =>
          ret.res = Ok(JStr(KindName(ret.arg)))
    /\ ret.op = "CacheLevel.MarshalJSON" /\ ret.arg \in L1 .. L5 =>
          ret.res = Ok(JStr(LevelName(ret.arg)))
    /\ ret.op = "ParseProcessingKind" =>
          /\ \A pk \in Package .. Thread : NamesKind(ret.arg, pk) => ret.res = Ok(pk)
          /\ (\A pk \in Package .. Thread : ~NamesKind(ret.arg, pk)) =>
                ret.res = Err(ErrUnknownKind, UnknownProcessingKind)
    /\ ret.op = "ParseCacheLevel" =>
          /\ \A cl \in L1 .. L5 : ret.arg = LevelName(cl) => ret.res = Ok(cl)
          /\ (\A cl \in L1 .. L5 : ret.arg # LevelName(cl)) =>
                ret.res = Err(ErrUnknownLevel, UnknownCacheLevel)

EnumParsingWitness ==
    /\ ret.op = "ParseProcessingKind"
    /\ ret.arg = <<"N","u","M","a","_","n","O","d","E">>
    /\ ret.res = Ok(NUMANode)

(* C14 as stated: an ancestor query on the root of a non-empty tree fails
   with NoParent, as ParentID(0) and Parent(0) do, rather than giving a
   result. *)
RootQuery(ops) ==
    /\ ret.op \in ops
    /\ ret.arg = 0
    /\ topo # Nil
    /\ NumNodes(topo) > 0

AncestorsOfRootNoParent ==
    RootQuery({"AncestorIDs", "Ancestors"}) =>
        ret.res.k = "err" /\ ret.res.err = ErrNoParent

(* C14 amended: on a non-empty tree whose child entries are all in range,
   AncestorIDs(0) and Ancestors(0) return an empty list that is not nil and
   no error; NoParent comes from ParentID(0) and Parent(0) only. *)
EntriesInRange(t) ==
    \A p \in 0 .. NumNodes(t) - 1 :
        \A j \in DOMAIN ChildrenOf(t, p) : ChildrenOf(t, p)[j] < NumNodes(t)

AncestorsOfRootEmpty ==
    /\ (RootQuery({"AncestorIDs", "Ancestors"}) /\ EntriesInRange(topo)) =>
          ret.res = Ok(Slice(<<>>))
    /\ RootQuery({"ParentID", "Parent"}) =>
          ret.res.k = "err" /\ ret.res.err = ErrNoParent
    /\ ret.op \in {"AncestorIDs", "Ancestors"} => ret.res.err # ErrNoParent

AncestorsOfRootWitness ==
    /\ RootQuery({"AncestorIDs"})
    /\ NumNodes(topo) = 3
    /\ ValidTree(topo)
    /\ ret.res = Ok(Slice(<<>>))

(* C15: an Element that decoding is applied to, any number of times, with
   or without success, never has both tags set; after each successful decode
   it is in exactly the state the input names (Root for the machine token,
   Processing for an object with the key processing, Cache for an object
   with the key cache only), holding what a fresh Element would hold after
   the same call, whatever it held before. *)
BothTags(el) == el.Processing # Nil /\ el.Cache # Nil

DecodedElement == ret.op = "Element.UnmarshalJSON"

DecodingKeepsOneTag ==
    /\ ~BothTags(e)
    /\ DecodedElement => ~BothTags(ret.pre)
    /\ (DecodedElement /\ ret.res.k = "ok") =>
          /\ e = ElementUnmarshalJSON(ZeroElement, ret.arg).e
          /\ IF HasPrefix(ToLower(Bytes(ret.arg)), QuotedMachine) THEN IsRoot(e)
             ELSE IF HasKey(ret.arg, "processing") THEN IsProcessing(e)
             ELSE HasKey(ret.arg, "cache") /\ IsCache(e)

DecodingKeepsOneTagWitness ==
    /\ DecodedElement
    /\ ret.res.k = "ok"
    /\ IsProcessing(ret.pre)
    /\ HasKey(ret.arg, "cache")
    /\ IsCache(e)

(* C16: on a valid tree every running walk of LeafDescendantIDs,
   LeafDescendants, AncestorIDs or Ancestors eventually returns: the stack
   walk empties its stack, the upward walk reaches index 0.  And the upward
   walk stops exactly when the root has been appended: while it runs no
   entry but the last one appended can be 0 and the loop variable is that
   last entry, and what AncestorIDs returns is empty for the root and
   otherwise ends with its only 0. *)
OnlyLastIsRoot(ids) == \A i \in 1 .. Len(ids) - 1 : ids[i] # 0

UpwardWalkStopsAtRoot ==
    /\ (ret.op \in AncestorOps /\ ret.res.k = "run") =>
          LET f == ret.res.val
          IN  /\ OnlyLastIsRoot(f.ancestorIDs)
              /\ f.ancestorIDs # <<>> => f.id = f.ancestorIDs[Len(f.ancestorIDs)]
              /\ f.ancestorIDs = <<>> => f.id = ret.arg
    /\ (ret.op = "AncestorIDs" /\ ret.res.k = "ok") =>
          LET ids == ret.res.val.s
          IN  /\ OnlyLastIsRoot(ids)
              /\ ids = <<>> <=> ret.arg = 0
              /\ ids # <<>> => ids[Len(ids)] = 0

TraversalsTerminate ==
    /\ [](UpwardWalkStopsAtRoot)
    /\ (ret.res.k = "run" /\ ValidTree(topo)) ~> (ret.res.k = "ok")

TraversalsTerminateWitness ==
    /\ ret.op = "AncestorIDs"
    /\ ret.res = Ok(Slice(<<1, 0>>))
    /\ ValidTree(topo)

====
